---- MODULE Spec2Model ----
(***************************************************************************)
(* A model of lib/network/net.go: TcpHost / TcpConn and the identity       *)
(* negotiation of SecureTcpHost / SecureTcpConn.                           *)
(*                                                                         *)
(* Host "A" is a SecureTcpHost whose application thread calls              *)
(* SecureTcpHost.Open(id) and the embedded TcpHost.Open(name); host "B" is *)
(* a SecureTcpHost whose goroutine runs SecureTcpHost.Listen(fn).  Either  *)
(* host may be closed at any time from another goroutine.  A TCP stream is *)
(* a pair of FIFO queues of encoded messages; one Receive returns one      *)
(* queued message.                                                         *)
(***************************************************************************)
EXTENDS Integers, Sequences, FiniteSets, TLC

\* ------------------------------------------------------------ constants
\* const maxRetry = 10
maxRetry == 10
\* const waitRetry = 1 * time.Second, counted in seconds
waitRetry == 1

\* bufferSize := 4096 in TcpConn.Receive
bufferSize == 4096

\* ------------------------------------------------------------ bounds
\* messages one end sends on the connection of the byte stream
MaxSends == 2
\* Count rounds the root runs
MaxRounds == 56
\* connections the network carries in one run
MaxConns == 2
\* application messages a stream holds unread in one direction
MaxQueue == 1

\* ------------------------------------------------------------ universe
Hosts == {"A", "B"}
\* the host whose application opens connections, the host that listens
Opener == "A"
Listener == "B"
Addr == {"x", "y"}

\* the zero value Identity{}
NoIdentity == [Id |-> "none", Addresses |-> <<>>]

\* SecureTcpHost.Identity of each host (NewSecureTcpHost)
HostIdentity(h) ==
  IF h = "A" THEN [Id |-> "IdA", Addresses |-> <<"a">>]
             ELSE [Id |-> "IdB", Addresses |-> <<"x", "y">>]

\* the identities the application of A passes to SecureTcpHost.Open
DialIdentities ==
  {[Id |-> i, Addresses |-> as] :
     i \in {"IdB", "IdC"}, as \in {<<"x", "y">>}}

\* the side of a stream a host holds: A dials (client), B accepts (server)
Side(h) == IF h = Opener THEN "c" ELSE "s"
Other(side) == IF side = "c" THEN "s" ELSE "c"

\* wire messages: an encoded Identity, or an encoded application payload
IdentityMsg(id) == [type |-> "Identity", body |-> id]
OtherMsg == [type |-> "Other", body |-> NoIdentity]

\* EmptyApplicationMessage
EmptyApplicationMessage ==
  [MsgType |-> "none", Msg |-> NoIdentity, From |-> "none", Identity |-> NoIdentity]

VARIABLES
  \* TcpHost fields, per host
  peers, listener, quit, closed,
  \* SecureTcpHost.workingAddress, per host
  workingAddress,
  \* the network: addresses net.Listen can bind, open listening sockets, streams
  bindable, lnOpen, conns,
  \* the goroutine of B inside SecureTcpHost.Listen
  lis,
  \* the application thread of A inside Open, and inside openTcpConn
  open, dial,
  \* what Open is returning to the application of A
  openRet,
  \* the hosts and connection ends Close has been called on
  closeCalled,
  \* one TcpHost seen at the grain of its accesses to t.peers: the goroutines in
  \* listen, Open and Close, each at its place around the map access
  race,
  \* one TcpConn seen at the grain of bytes: what Send wrote, what reached the
  \* reading end, what the Read calls of Receive took, and what Receive returned
  wire,
  \* the root of simul/cothority in its counting loop, and the Count instance
  \* of the round in progress
  count,
  \* one process of simul/cothority from main's first line to its last, the
  \* goroutines of its hosts, and the CloseAll instance on the tree
  main,
  \* the overlay of one host: its protocol instances by dispatch key, and the
  \* envelopes on their way to it
  disp,
  \* one call of handleError: the caller, the error it hands over, the result
  cls

\* the network of hosts A and B
netVars == <<peers, listener, quit, closed, workingAddress, bindable, lnOpen, conns,
             lis, open, dial, openRet, closeCalled>>

\* the state the network of A and B leaves alone
restVars == <<race, wire, count, main, disp, cls>>

vars == <<netVars, restVars>>

hostVars == <<peers, listener, quit, closed, workingAddress>>

ConnIds == 1..Len(conns)

\* TcpConn.Remote: the dialed name on the client, the peer's address on the server
Remote(c, side) == IF side = "c" THEN conns[c].addr ELSE ToString(c)

\* ------------------------------------------------------------ errors
\* what handleError reads of a transport error
RawError(useOfClosed, canceled, eof, isNet, temporary, timeout) ==
  [useOfClosed |-> useOfClosed, canceled |-> canceled, eof |-> eof,
   isNet |-> isNet, temporary |-> temporary, timeout |-> timeout]

\* "use of closed network connection", io.EOF, a failed write or close
ErrNetClosing == RawError(TRUE, FALSE, FALSE, TRUE, FALSE, FALSE)
IoEOF == RawError(FALSE, FALSE, TRUE, FALSE, FALSE, FALSE)
ErrSyscall == RawError(FALSE, FALSE, FALSE, TRUE, FALSE, FALSE)

\* a classification that asks Timeout() before Temporary()
handleErrorTimeoutFirst(err) ==
  IF err.useOfClosed THEN "ErrClosed"
  ELSE IF err.canceled THEN "ErrCanceled"
  ELSE IF err.eof THEN "ErrEOF"
  ELSE IF ~err.isNet THEN "ErrUnknown"
  ELSE IF err.timeout THEN "ErrTimeout"
  ELSE IF err.temporary THEN "ErrTemp"
  ELSE "ErrUnknown"

handleError(err) ==
  IF err.useOfClosed THEN "ErrClosed"
  ELSE IF err.canceled THEN "ErrCanceled"
  ELSE IF err.eof THEN "ErrEOF"
  ELSE IF ~err.isNet THEN "ErrUnknown"
  ELSE IF err.temporary THEN "ErrTemp"
  ELSE IF err.timeout THEN "ErrTimeout"
  ELSE "ErrUnknown"

\* ------------------------------------------------------------ TcpConn
\* the stream net.Dial creates; the TcpConn of openTcpConn is its client end.
\* identity is SecureTcpConn.identity of each end; declared records the identity
\* each end received during its negotiation, sNego how the listen side's ended
NewConn(name, secure) ==
  [addr |-> name, secure |-> secure, accepted |-> FALSE, handled |-> FALSE,
   closed |-> [c |-> FALSE, s |-> FALSE],
   inq |-> [c |-> << >>, s |-> << >>],
   identity |-> [c |-> NoIdentity, s |-> NoIdentity],
   declared |-> [c |-> NoIdentity, s |-> NoIdentity],
   sNego |-> "none"]

\* targets of Close
HostT(h) == [h |-> h, c |-> 0, side |-> "none"]
ConnT(c, side) == [h |-> "none", c |-> c, side |-> side]

\* TcpConn.Send: the outcomes [err, cs] of writing message m on end side of c
TcpConnSend(cs, c, side, m) ==
  IF cs[c].closed[side]
    THEN {[err |-> handleError(ErrNetClosing), cs |-> cs]}
  ELSE IF cs[c].closed[Other(side)]
    THEN {[err |-> "nil", cs |-> cs], [err |-> handleError(ErrSyscall), cs |-> cs]}
  ELSE {[err |-> "nil",
         cs |-> [cs EXCEPT ![c].inq[Other(side)] = Append(@, m)]]}

\* am.UnmarshalBinary followed by am.From = c.Remote()
Decode(m, from) ==
  [MsgType |-> m.type, Msg |-> m.body, From |-> from, Identity |-> NoIdentity]

\* TcpConn.Receive: the outcomes [am, err, cs]; none while the read blocks
TcpConnReceive(cs, c, side) ==
  IF cs[c].closed[side]
    THEN {[am |-> EmptyApplicationMessage, err |-> handleError(ErrNetClosing), cs |-> cs]}
  ELSE IF cs[c].inq[side] # << >>
    THEN {[am |-> Decode(Head(cs[c].inq[side]), Remote(c, side)), err |-> "nil",
           cs |-> [cs EXCEPT ![c].inq[side] = Tail(@)]]}
  ELSE IF cs[c].closed[Other(side)]
    THEN {[am |-> EmptyApplicationMessage, err |-> handleError(IoEOF), cs |-> cs]}
  ELSE {}

\* TcpConn.Close: the outcomes [err, cs]; c.Conn.Close() may fail
TcpConnClose(cs, c, side) ==
  IF cs[c].closed[side]
    THEN {[err |-> "nil", cs |-> cs]}
    ELSE {[err |-> e, cs |-> [cs EXCEPT ![c].closed[side] = TRUE]] :
            e \in {"nil", handleError(ErrSyscall)}}

\* a SecureTcpConn.Receive that leaves nm.Identity as TcpConn.Receive set it
SecureTcpConnReceiveUnstamped(cs, c, side) == TcpConnReceive(cs, c, side)

\* SecureTcpConn.Receive
SecureTcpConnReceive(cs, c, side) ==
  {[r EXCEPT !.am.Identity = cs[c].identity[side]] : r \in TcpConnReceive(cs, c, side)}

\* ------------------------------------------------------------ negotiation
\* a negotiateListen that reports success without having written its identity
NegotiateSendNothing(cs, c, side, h) == {[err |-> "nil", cs |-> cs]}

\* negotiateListen, first half: send our identity; outcomes [err, cs]
NegotiateSend(cs, c, side, h) ==
  {[err |-> IF r.err = "nil" THEN "nil" ELSE "ErrNegoSend", cs |-> r.cs] :
     r \in TcpConnSend(cs, c, side, IdentityMsg(HostIdentity(h)))}

\* negotiateListen, second half: receive, check the type, record the identity;
\* outcomes [err, cs, declared]
NegotiateReceive(cs, c, side) ==
  {IF r.err # "nil"
     THEN [err |-> "ErrNegoReceive", cs |-> r.cs, declared |-> NoIdentity]
   ELSE IF r.am.MsgType # "Identity"
     THEN [err |-> "ErrNegoType", cs |-> r.cs, declared |-> NoIdentity]
   ELSE [err |-> "nil",
         cs |-> [r.cs EXCEPT ![c].identity[side] = r.am.Msg,
                             ![c].declared[side] = r.am.Msg],
         declared |-> r.am.Msg] :
   r \in TcpConnReceive(cs, c, side)}

\* a negotiateOpen that accepts whatever identity was received
VerifyIdentityUnchecked(got, id) == "nil"

\* negotiateOpen, after negotiateListen returned nil: verify the identity
VerifyIdentity(got, id) ==
  IF got.Id # id.Id THEN "ErrNegoWrongIdentity" ELSE "nil"

\* ------------------------------------------------------------ initial state
NoRet == [valid |-> FALSE, secure |-> FALSE, conn |-> 0, err |-> "nil"]

\* the locals of one openTcpConn call, and what it returns
NewDial(name) ==
  [name |-> name, i |-> 0, conn |-> 0, err |-> "nil",
   dials |-> 0, slept |-> 0, firstOk |-> 0, retConn |-> 0, retErr |-> "nil"]

\* the locals of one Open call: tried are the addresses openTcpConn was called on,
\* failed those it returned an error for, declared the identity the peer sent
IdleOpen ==
  [pc |-> "idle", secure |-> FALSE, id |-> NoIdentity, idx |-> 1, tried |-> << >>,
   failed |-> << >>, conn |-> 0, declared |-> NoIdentity]

\* Identity.First
First(id) == IF Len(id.Addresses) > 0 THEN id.Addresses[1] ELSE ""

\* the TcpHost of the map accesses: NewTcpHost, its listener bound, nothing running
RaceStart ==
  [peers |-> {}, todo |-> {}, listen |-> "accept", open |-> "idle", close |-> "idle",
   key |-> [listen |-> "none", open |-> "none"], conns |-> 0,
   closed |-> FALSE, quit |-> FALSE, lnOpen |-> TRUE, crashed |-> FALSE]

\* ---- the Go int of the counting loop, as 16-bit limbs, least significant first
\* the width of int: 32 bits on a 32-bit build, 64 on a 64-bit one
IntWidths == {32, 64}
LimbBase == 65536

\* the int of width bits whose value is the small number v
IntOf(v, bits) == [i \in 1..(bits \div 16) |-> IF i = 1 THEN v ELSE 0]

\* x * 2 in two's complement: shift left by one, the top bit is lost
IntDouble(x) ==
  [i \in 1..Len(x) |->
     ((2 * x[i]) % LimbBase) + (IF i > 1 /\ x[i - 1] >= LimbBase \div 2 THEN 1 ELSE 0)]

IntNegative(x) == x[Len(x)] >= LimbBase \div 2
IntPositive(x) == ~IntNegative(x) /\ \E i \in 1..Len(x) : x[i] # 0

\* y is twice x as numbers: x * 2 did not wrap (the two top bits of x agree)
ExactlyTwice(x, y) ==
  /\ y = IntDouble(x)
  /\ (x[Len(x)] < LimbBase \div 4 \/ x[Len(x)] >= 3 * (LimbBase \div 4))

\* ---- the tree of the simulation: r is the root
Nodes == {"r", "a", "b", "c"}
Root == "r"
Children == [n \in Nodes |-> CASE n = "r" -> {"a", "b"} [] n = "a" -> {"c"} [] OTHER -> {}]
Leaves == {n \in Nodes : Children[n] = {}}

\* rootSC.Tree.Size()
TreeSize == Cardinality(Nodes)

\* no Count instance
NoInstance == [n \in Nodes |-> [st |-> "none", val |-> 0]]

\* main before the counting loop (lines 107-111) on a build whose int has bits bits
CountStart(bits) ==
  [bits |-> bits, pc |-> "loop", wait |-> TRUE, timeout |-> IntOf(1000, bits),
   rounds |-> 0, given |-> IntOf(0, bits), prevGiven |-> IntOf(0, bits),
   total |-> 0, out |-> {}, prevOut |-> {}, node |-> NoInstance,
   responsive |-> {Root}, allUp |-> FALSE]

\* the root while another part of the program is looked at
CountIdle == CountStart(32)

\* ---- the roster and the trees of a run
\* the identities of the roster, one host each
Roster == {"R", "A", "B", "C"}

\* sc.Tree: the tree node slots are Nodes; a tree gives every slot an identity
TreeOverRoster == [r |-> "R", a |-> "A", b |-> "B", c |-> "C"]
\* a tree that has the root's identity at a second slot and leaves C out
TreeAliased == [r |-> "R", a |-> "A", b |-> "B", c |-> "R"]
WorkingTrees == {TreeOverRoster, TreeAliased}
NoTree == [n \in Nodes |-> "none"]

\* Tree.UsesList(): exactly one tree node for every identity of the roster
UsesList(tree) == \A id \in Roster : Cardinality({n \in Nodes : tree[n] = id}) = 1

\* Roster.GenerateBinaryTree(): a tree with one node for every identity
GenerateBinaryTree == TreeOverRoster

\* scs: the hosts LoadSimulationConfig gives one process
LocalHosts == {<<"R">>, <<"A">>, <<"B", "C">>, <<"A", "R">>, <<"R", "A", "B", "C">>}

\* main at its first line, for the hosts scs, the tree and the SingleHost flag
\* of the configuration
MainStart(scs, tree, singleHost) ==
  [scs |-> scs, tree |-> tree, singleHost |-> singleHost,
   pc |-> "load", i |-> 1, wg |-> 0,
   host |-> [k \in 1..Len(scs) |-> "none"],
   rootSim |-> FALSE, rootStarted |-> FALSE, logged |-> FALSE,
   closeTree |-> NoTree, registered |-> FALSE, pi |-> "none", err |-> "nil",
   started |-> FALSE, startedOn |-> NoTree, remote |-> FALSE,
   node |-> [n \in Nodes |-> "idle"], acks |-> {}, hostClosed |-> {},
   closeOrder |-> << >>]

\* the process while another part of the program is looked at
MainIdle == MainStart(<<"R">>, TreeOverRoster, FALSE)

\* ---- the overlay's dispatch
\* dispatch keys (tree id, protocol name, instance id)
Keys == {"k1", "k2"}

\* no instance under key k yet
NoProtocolInstance == [st |-> "none", inbox |-> << >>, handled |-> {}, final |-> {}]

\* an overlay with no instance and nothing on its way
DispIdle ==
  [inst |-> [k \in Keys |-> NoProtocolInstance], flying |-> {}, sent |-> 0,
   delivered |-> {}, dropped |-> {}]

\* ---- handleError
\* the callers of handleError
Callers == {"TcpHost.Close", "TcpConn.Receive", "TcpConn.Send", "TcpConn.Close"}

\* the errors a caller can hand over: an error that is no net.Error has neither
\* Temporary() nor Timeout()
TransportErrors ==
  {e \in [useOfClosed : BOOLEAN, canceled : BOOLEAN, eof : BOOLEAN,
          isNet : BOOLEAN, temporary : BOOLEAN, timeout : BOOLEAN] :
     ~e.isNet => (~e.temporary /\ ~e.timeout)}

\* a caller about to call handleError(err)
ClsStart(caller, err) == [caller |-> caller, err |-> err, out |-> "none"]

ClsIdle == ClsStart("TcpConn.Receive", IoEOF)

\* the connection of the byte stream: open, nothing written, no Receive running
WireStart ==
  [sent |-> << >>, delivered |-> 0, consumed |-> 0, bufStart |-> 0,
   pc |-> "idle", ctx |-> "none", results |-> << >>,
   sndClosed |-> FALSE, rcvClosed |-> FALSE]

NetInit ==
  /\ peers = [h \in Hosts |-> {}]
  /\ listener = [h \in Hosts |-> "none"]
  /\ quit = [h \in Hosts |-> FALSE]
  /\ closed = [h \in Hosts |-> FALSE]
  /\ workingAddress = [h \in Hosts |-> First(HostIdentity(h))]
  /\ bindable \in SUBSET Addr
  /\ lnOpen = {}
  /\ conns = << >>
  /\ lis = [pc |-> "bind", idx |-> 1, conn |-> 0, ret |-> "none"]
  /\ open = IdleOpen
  /\ dial = NewDial("none")
  /\ openRet = NoRet
  /\ closeCalled = {}

\* the network with no address to bind: the state of A and B while another
\* part of the program is looked at
NetIdle == NetInit /\ bindable = {}

Init == NetInit /\ race = RaceStart /\ wire = WireStart /\ count = CountIdle /\ main = MainIdle /\ disp = DispIdle /\ cls = ClsIdle

\* ------------------------------------------------------------ TcpHost.Open
\* t.peers[name] = c
PeersInsert(p, name, c) ==
  {e \in p : e.name # name} \cup {[name |-> name, conn |-> c]}

\* a retry loop that runs once too often
DialLoopGuardOffByOne(i) == i <= maxRetry

\* for i := 0; i < maxRetry; i++
DialLoopGuard(i) == i < maxRetry

\* the two time.Sleep(waitRetry) a failed attempt runs through (lines 115, 119)
SleepAfterFailure(slept) == slept + waitRetry + waitRetry

\* the application of A calls SecureTcpHost.Open(id) or TcpHost.Open(name)
OpenCall ==
  /\ open.pc = "idle"
  /\ Len(conns) < MaxConns
  /\ \/ \E id \in DialIdentities :
          /\ open' = [IdleOpen EXCEPT !.pc = "addr", !.secure = TRUE, !.id = id]
          /\ dial' = NewDial("none")
     \/ \E name \in Addr :
          /\ open' = [IdleOpen EXCEPT !.pc = "dial"]
          /\ dial' = NewDial(name)
  /\ UNCHANGED <<restVars, hostVars, bindable, lnOpen, conns, lis, openRet, closeCalled>>

\* an Open that gives up after the first address
FirstAddressOnly(idx, id) == idx <= 1 /\ idx <= Len(id.Addresses)

\* for _, addr := range id.Addresses
MoreAddresses(idx, id) == idx <= Len(id.Addresses)

\* SecureTcpHost.Open: the next address of the range loop, and the exit of the loop
OpenNextAddr ==
  /\ open.pc = "addr"
  /\ IF MoreAddresses(open.idx, open.id)
       THEN /\ dial' = NewDial(open.id.Addresses[open.idx])
            /\ open' = [open EXCEPT !.pc = "dial",
                                     !.tried = Append(@, open.id.Addresses[open.idx])]
            /\ UNCHANGED openRet
       ELSE \* if !success { return nil, fmt.Errorf("Could not connect ...") }
            /\ openRet' = [valid |-> TRUE, secure |-> TRUE, conn |-> 0,
                           err |-> "ErrNoAddressConnected"]
            /\ open' = [open EXCEPT !.pc = "ret"]
            /\ UNCHANGED dial
  /\ UNCHANGED <<restVars, hostVars, bindable, lnOpen, conns, lis, closeCalled>>

\* openTcpConn: one iteration of the retry loop
DialAttempt ==
  /\ open.pc = "dial"
  /\ DialLoopGuard(dial.i)
  /\ IF dial.name \in lnOpen
       THEN \* net.Dial succeeds: break
            /\ conns' = Append(conns, NewConn(dial.name, open.secure))
            /\ dial' = [dial EXCEPT !.conn = Len(conns) + 1, !.err = "nil",
                                     !.dials = @ + 1,
                                     !.firstOk = IF @ = 0 THEN dial.dials + 1 ELSE @]
            /\ open' = [open EXCEPT !.pc = "dialEnd"]
       ELSE \* net.Dial fails: sleep, sleep again, i++
            /\ dial' = [dial EXCEPT !.conn = 0, !.err = "ErrDial", !.dials = @ + 1,
                                     !.slept = SleepAfterFailure(@), !.i = @ + 1]
            /\ UNCHANGED <<conns, open>>
  /\ UNCHANGED <<restVars, hostVars, bindable, lnOpen, lis, openRet, closeCalled>>

\* openTcpConn: the loop ran out
DialLoopExit ==
  /\ open.pc = "dial"
  /\ ~DialLoopGuard(dial.i)
  /\ open' = [open EXCEPT !.pc = "dialEnd"]
  /\ UNCHANGED <<restVars, hostVars, bindable, lnOpen, conns, lis, dial, openRet, closeCalled>>

\* openTcpConn: lines 121-130, the return value
DialReturn ==
  /\ open.pc = "dialEnd"
  /\ dial' = [dial EXCEPT
                !.retConn = dial.conn,
                !.retErr = IF dial.conn = 0 THEN "ErrCouldNotConnect" ELSE dial.err]
  /\ open' = [open EXCEPT !.pc = "dialRet"]
  /\ UNCHANGED <<restVars, hostVars, bindable, lnOpen, conns, lis, openRet, closeCalled>>

\* TcpHost.Open after openTcpConn returned
TcpHostOpenReturn ==
  /\ open.pc = "dialRet"
  /\ ~open.secure
  /\ IF dial.retErr # "nil"
       THEN /\ openRet' = [NoRet EXCEPT !.valid = TRUE, !.err = dial.retErr]
            /\ UNCHANGED peers
       ELSE /\ peers' = [peers EXCEPT ![Opener] = PeersInsert(@, dial.name, dial.retConn)]
            /\ openRet' = [NoRet EXCEPT !.valid = TRUE, !.conn = dial.retConn]
  /\ open' = [open EXCEPT !.pc = "ret"]
  /\ dial' = NewDial("none")
  /\ UNCHANGED <<restVars, listener, quit, closed, workingAddress, bindable, lnOpen, conns, lis,
                 closeCalled>>

\* SecureTcpHost.Open after openTcpConn returned: continue, or build secure and break
SecureOpenDialed ==
  /\ open.pc = "dialRet"
  /\ open.secure
  /\ IF dial.retErr # "nil"
       THEN /\ open' = [open EXCEPT !.pc = "addr", !.idx = @ + 1,
                                     !.failed = Append(@, dial.name)]
            /\ UNCHANGED conns
       ELSE /\ open' = [open EXCEPT !.pc = "negoSend", !.conn = dial.retConn]
            /\ conns' = [conns EXCEPT ![dial.retConn].identity["c"] = open.id]
  /\ dial' = NewDial("none")
  /\ UNCHANGED <<restVars, hostVars, bindable, lnOpen, lis, openRet, closeCalled>>

\* SecureTcpHost.Open returns (&secure, err)
SecureOpenReturn(err) ==
  [valid |-> TRUE, secure |-> TRUE, conn |-> open.conn, err |-> err]

\* negotiateOpen -> negotiateListen: send our identity
OpenNegotiateSend ==
  /\ open.pc = "negoSend"
  /\ \E r \in NegotiateSend(conns, open.conn, "c", Opener) :
       /\ conns' = r.cs
       /\ IF r.err = "nil"
            THEN /\ open' = [open EXCEPT !.pc = "negoRecv"]
                 /\ UNCHANGED openRet
            ELSE /\ open' = [open EXCEPT !.pc = "ret"]
                 /\ openRet' = SecureOpenReturn(r.err)
  /\ UNCHANGED <<restVars, hostVars, bindable, lnOpen, lis, dial, closeCalled>>

\* negotiateOpen -> negotiateListen: receive the identity; then verify its id
OpenNegotiateReceive ==
  /\ open.pc = "negoRecv"
  /\ \E r \in NegotiateReceive(conns, open.conn, "c") :
       /\ conns' = r.cs
       /\ open' = [open EXCEPT !.pc = "ret", !.declared = r.declared]
       /\ openRet' = SecureOpenReturn(
                        IF r.err # "nil" THEN r.err
                        ELSE VerifyIdentity(r.cs[open.conn].identity["c"], open.id))
  /\ UNCHANGED <<restVars, hostVars, bindable, lnOpen, lis, dial, closeCalled>>

\* the application of A takes what Open returned
OpenReturned ==
  /\ open.pc = "ret"
  /\ open' = IdleOpen
  /\ openRet' = NoRet
  /\ UNCHANGED <<restVars, hostVars, bindable, lnOpen, conns, lis, dial, closeCalled>>

\* ------------------------------------------------------------ Listen
\* net.Listen("tcp", global) succeeds
CanBind(addr) == addr \in bindable /\ addr \notin lnOpen

\* SecureTcpHost.Listen: the next address of the range loop, TcpHost.listen binds it
ListenBind ==
  /\ lis.pc = "bind"
  /\ LET as == HostIdentity(Listener).Addresses IN
     IF lis.idx > Len(as)
       THEN \* return fmt.Errorf("No address worked for listening on this host")
            /\ lis' = [lis EXCEPT !.pc = "done", !.ret = "ErrNoAddressWorked"]
            /\ UNCHANGED <<workingAddress, listener, lnOpen>>
       ELSE /\ workingAddress' = [workingAddress EXCEPT ![Listener] = as[lis.idx]]
            /\ IF CanBind(as[lis.idx])
                 THEN /\ listener' = [listener EXCEPT ![Listener] = as[lis.idx]]
                      /\ lnOpen' = lnOpen \cup {as[lis.idx]}
                      /\ lis' = [lis EXCEPT !.pc = "accept"]
                 ELSE \* listen returned an error: try the next address
                      /\ lis' = [lis EXCEPT !.idx = @ + 1]
                      /\ UNCHANGED <<listener, lnOpen>>
  /\ UNCHANGED <<restVars, peers, quit, closed, bindable, conns, open, dial, openRet, closeCalled>>

\* the streams waiting in the backlog of the listening socket of h
Pending(h) ==
  {c \in ConnIds : /\ ~conns[c].accepted
                   /\ conns[c].addr = listener[h]
                   /\ ~conns[c].closed["s"]}

Min(S) == CHOOSE x \in S : \A y \in S : x <= y

\* TcpHost.listen: Accept returns a connection; it is tracked and fn is entered
Accept ==
  /\ lis.pc = "accept"
  /\ listener[Listener] \in lnOpen
  /\ Pending(Listener) # {}
  /\ LET c == Min(Pending(Listener)) IN
       /\ conns' = [conns EXCEPT ![c].accepted = TRUE]
       /\ peers' = [peers EXCEPT ![Listener] = PeersInsert(@, Remote(c, "s"), c)]
       /\ lis' = [lis EXCEPT !.pc = "negoSend", !.conn = c]
  /\ UNCHANGED <<restVars, listener, quit, closed, workingAddress, bindable, lnOpen, open, dial,
                 openRet, closeCalled>>

\* TcpHost.listen: Accept fails on the closed listener; with quit closed listen
\* returns nil, and the range loop of SecureTcpHost.Listen goes on (err == nil)
AcceptError ==
  /\ lis.pc = "accept"
  /\ listener[Listener] \notin lnOpen
  /\ IF quit[Listener]
       THEN lis' = [lis EXCEPT !.pc = "bind", !.idx = @ + 1]
       ELSE UNCHANGED lis
  /\ UNCHANGED <<restVars, hostVars, bindable, lnOpen, conns, open, dial, openRet, closeCalled>>

\* a receiver that ignores the error of negotiateListen
ReceiverNeverDrops(err) == FALSE

\* what the receiver of SecureTcpHost.Listen does with the error of
\* negotiateListen: drop the connection, or go fn(stc)
ReceiverDrops(err) == err # "nil"

\* the receiver: negotiateListen sends the identity
ListenNegotiateSend ==
  /\ lis.pc = "negoSend"
  /\ \E r \in NegotiateSend(conns, lis.conn, "s", Listener) :
       IF ReceiverDrops(r.err)
         THEN /\ \E k \in TcpConnClose(r.cs, lis.conn, "s") :
                   conns' = [k.cs EXCEPT ![lis.conn].sNego = "sendFailed"]
              /\ closeCalled' = closeCalled \cup {ConnT(lis.conn, "s")}
              /\ lis' = [lis EXCEPT !.pc = "accept", !.conn = 0]
         ELSE IF r.err = "nil"
           THEN /\ conns' = r.cs
                /\ lis' = [lis EXCEPT !.pc = "negoRecv"]
                /\ UNCHANGED closeCalled
           ELSE /\ conns' = [r.cs EXCEPT ![lis.conn].sNego = "sendFailed",
                                         ![lis.conn].handled = TRUE]
                /\ lis' = [lis EXCEPT !.pc = "accept", !.conn = 0]
                /\ UNCHANGED closeCalled
  /\ UNCHANGED <<restVars, hostVars, bindable, lnOpen, open, dial, openRet>>

\* how the negotiation on the listen side ended
NegoOutcome(err) ==
  CASE err = "nil" -> "ok"
    [] err = "ErrNegoReceive" -> "receiveFailed"
    [] err = "ErrNegoType" -> "wrongType"
    [] OTHER -> "sendFailed"

\* the receiver: negotiateListen receives; then drop the connection or go fn(stc)
ListenNegotiateReceive ==
  /\ lis.pc = "negoRecv"
  /\ \E r \in NegotiateReceive(conns, lis.conn, "s") :
       IF ReceiverDrops(r.err)
         THEN /\ \E k \in TcpConnClose(r.cs, lis.conn, "s") :
                   conns' = [k.cs EXCEPT ![lis.conn].sNego = NegoOutcome(r.err)]
              /\ closeCalled' = closeCalled \cup {ConnT(lis.conn, "s")}
         ELSE /\ conns' = [r.cs EXCEPT ![lis.conn].sNego = NegoOutcome(r.err),
                                       ![lis.conn].handled = TRUE]
              /\ UNCHANGED closeCalled
  /\ lis' = [lis EXCEPT !.pc = "accept", !.conn = 0]
  /\ UNCHANGED <<restVars, hostVars, bindable, lnOpen, open, dial, openRet>>

\* ------------------------------------------------------------ Close
\* c.closed = true on end side of every stream of S
MarkClosed(cs, S, side) ==
  [c \in DOMAIN cs |-> IF c \in S THEN [cs[c] EXCEPT !.closed[side] = TRUE] ELSE cs[c]]

\* the listening socket on addr closes: the streams still in its backlog are reset
ListenerClose(cs, addr) ==
  [c \in DOMAIN cs |->
     IF ~cs[c].accepted /\ cs[c].addr = addr
       THEN [cs[c] EXCEPT !.closed["s"] = TRUE] ELSE cs[c]]

\* a Close without the closed guard
NeverAlreadyClosed(h) == FALSE

\* if t.closed == true { return nil }
AlreadyClosed(h) == closed[h]

\* TcpHost.Close: its outcomes [err, closed, conns, quit, lnOpen, calls], calls the
\* connection ends c.Close() ran on.  The range over t.peers visits the
\* connections in any order and returns at the first c.Close() that fails: S are
\* the connections visited before it, e the one whose Close failed
TcpHostCloseOutcomes(h) ==
  LET tracked == {p.conn : p \in peers[h]}
      out(err, cs, q, ln, S) ==
        [err |-> err, closed |-> [closed EXCEPT ![h] = TRUE], conns |-> cs,
         quit |-> q, lnOpen |-> ln, calls |-> {ConnT(c, Side(h)) : c \in S}]
  IN
  IF AlreadyClosed(h)
    THEN {[err |-> "nil", closed |-> closed, conns |-> conns, quit |-> quit,
           lnOpen |-> lnOpen, calls |-> {}]}
    ELSE {out("nil",
              IF listener[h] # "none"
                THEN ListenerClose(MarkClosed(conns, tracked, Side(h)), listener[h])
                ELSE MarkClosed(conns, tracked, Side(h)),
              [quit EXCEPT ![h] = TRUE], lnOpen \ {listener[h]}, tracked)}
         \cup
         {out(handleError(ErrSyscall), MarkClosed(conns, S \cup {e}, Side(h)),
              quit, lnOpen, S \cup {e}) :
            e \in {c \in tracked : ~conns[c].closed[Side(h)]},
            S \in SUBSET tracked}

\* Host.Close, called from any goroutine
TcpHostClose(h) ==
  /\ \E r \in TcpHostCloseOutcomes(h) :
       /\ closed' = r.closed
       /\ conns' = r.conns
       /\ quit' = r.quit
       /\ lnOpen' = r.lnOpen
       /\ closeCalled' = closeCalled \cup {HostT(h)} \cup r.calls
  /\ UNCHANGED <<restVars, peers, listener, workingAddress, bindable, lis, open, dial, openRet>>

\* ------------------------------------------------------------ the applications
\* the ends the application holds: every stream Open returned (A is one thread),
\* every stream handed to fn (B)
Holds(c, side) ==
  IF side = "c" THEN open.pc = "idle" ELSE conns[c].handled

\* Conn.Send of an application message
ConnSend(c, side) ==
  /\ Holds(c, side)
  /\ Len(conns[c].inq[Other(side)]) < MaxQueue
  /\ \E r \in TcpConnSend(conns, c, side, OtherMsg) : conns' = r.cs
  /\ UNCHANGED <<restVars, hostVars, bindable, lnOpen, lis, open, dial, openRet, closeCalled>>

\* Conn.Receive: its outcomes [am, err, cs]: SecureTcpConn.Receive, or
\* TcpConn.Receive on a connection of TcpHost.Open
ConnReceiveOutcomes(c, side) ==
  IF side = "s" \/ conns[c].secure
    THEN SecureTcpConnReceive(conns, c, side)
    ELSE TcpConnReceive(conns, c, side)

ConnReceive(c, side) ==
  /\ Holds(c, side)
  /\ \E r \in ConnReceiveOutcomes(c, side) : conns' = r.cs
  /\ UNCHANGED <<restVars, hostVars, bindable, lnOpen, lis, open, dial, openRet, closeCalled>>

\* Conn.Close
ConnClose(c, side) ==
  /\ Holds(c, side)
  /\ \E r \in TcpConnClose(conns, c, side) : conns' = r.cs
  /\ closeCalled' = closeCalled \cup {ConnT(c, side)}
  /\ UNCHANGED <<restVars, hostVars, bindable, lnOpen, lis, open, dial, openRet>>

\* ------------------------------------------------------------ specification
Next ==
  \/ OpenCall
  \/ OpenNextAddr
  \/ DialAttempt
  \/ DialLoopExit
  \/ DialReturn
  \/ TcpHostOpenReturn
  \/ SecureOpenDialed
  \/ OpenNegotiateSend
  \/ OpenNegotiateReceive
  \/ OpenReturned
  \/ ListenBind
  \/ Accept
  \/ AcceptError
  \/ ListenNegotiateSend
  \/ ListenNegotiateReceive
  \/ \E h \in Hosts : TcpHostClose(h)
  \/ \E c \in ConnIds, side \in {"c", "s"} : ConnSend(c, side)
  \/ \E c \in ConnIds, side \in {"c", "s"} : ConnReceive(c, side)
  \/ \E c \in ConnIds, side \in {"c", "s"} : ConnClose(c, side)

Spec == Init /\ [][Next]_vars

\* the goroutine of B in Listen and the thread of A in Open run whenever they can
ListenThread ==
  ListenBind \/ Accept \/ AcceptError \/ ListenNegotiateSend \/ ListenNegotiateReceive

OpenThread ==
  \/ OpenNextAddr \/ DialAttempt \/ DialLoopExit \/ DialReturn \/ TcpHostOpenReturn
  \/ SecureOpenDialed \/ OpenNegotiateSend \/ OpenNegotiateReceive \/ OpenReturned

FairSpec == Spec /\ WF_vars(ListenThread) /\ WF_vars(OpenThread)

\* ------------------------------------------------------------ t.peers
\* One TcpHost whose listen, Open and Close run in three goroutines.  TcpHost has
\* no lock (lines 72-83): each goroutine reaches its access to t.peers whenever
\* its own code gets there.  An access is a stretch of steps: the map write of
\* line 103 or 167 from its start to its end, the range of lines 179-183 from
\* the first entry to the last.
RaceThreads == {"listen", "open", "close"}

\* goroutine th is inside its access to t.peers
Accessing(th) ==
  CASE th = "listen" -> race.listen = "insert"
    [] th = "open" -> race.open = "insert"
    [] th = "close" -> race.close = "range"

\* a map write that ends while the range of Close runs is a data race: the
\* runtime may stop the process (concurrent map iteration and map write), and
\* otherwise the range may or may not produce the new entry
MapWrite(r, key) ==
  LET w == [r EXCEPT !.peers = @ \cup {key}] IN
  IF r.close = "range"
    THEN {[r EXCEPT !.crashed = TRUE], w, [w EXCEPT !.todo = @ \cup {key}]}
    ELSE {w}

\* listen: Accept returns a connection (lines 153, 162-166), the write of line
\* 167 starts
RaceAccept ==
  /\ ~race.crashed
  /\ race.listen = "accept"
  /\ race.lnOpen
  /\ race.conns < MaxConns
  /\ race' = [race EXCEPT !.listen = "insert", !.conns = @ + 1,
                          !.key.listen = ToString(race.conns + 1)]
  /\ UNCHANGED <<netVars, wire, count, main, disp, cls>>

\* listen: t.peers[conn.RemoteAddr().String()] = &c is done, fn(&c), next Accept
RaceAcceptInserted ==
  /\ ~race.crashed
  /\ race.listen = "insert"
  /\ \E w \in MapWrite(race, race.key.listen) :
       race' = [w EXCEPT !.listen = IF w.crashed THEN @ ELSE "accept"]
  /\ UNCHANGED <<netVars, wire, count, main, disp, cls>>

\* listen: Accept fails on the closed listener and quit is closed: return nil
RaceAcceptError ==
  /\ ~race.crashed
  /\ race.listen = "accept"
  /\ ~race.lnOpen
  /\ race.quit
  /\ race' = [race EXCEPT !.listen = "returned"]
  /\ UNCHANGED <<netVars, wire, count, main, disp, cls>>

\* Open(name): openTcpConn returned a connection, the write of line 103 starts
RaceOpen(name) ==
  /\ ~race.crashed
  /\ race.open = "idle"
  /\ race.conns < MaxConns
  /\ race' = [race EXCEPT !.open = "insert", !.conns = @ + 1, !.key.open = name]
  /\ UNCHANGED <<netVars, wire, count, main, disp, cls>>

\* Open: t.peers[name] = c is done, return c, nil
RaceOpenInserted ==
  /\ ~race.crashed
  /\ race.open = "insert"
  /\ \E w \in MapWrite(race, race.key.open) :
       race' = [w EXCEPT !.open = IF w.crashed THEN @ ELSE "idle"]
  /\ UNCHANGED <<netVars, wire, count, main, disp, cls>>

\* Close: t.closed is false; set it and start the range over t.peers
RaceCloseCall ==
  /\ ~race.crashed
  /\ race.close = "idle"
  /\ ~race.closed
  /\ race' = [race EXCEPT !.closed = TRUE, !.close = "range", !.todo = race.peers]
  /\ UNCHANGED <<netVars, wire, count, main, disp, cls>>

\* Close: one iteration of the range: c.Close() returns nil, or an error and
\* Close returns it
RaceCloseVisit ==
  /\ ~race.crashed
  /\ race.close = "range"
  /\ \E k \in race.todo :
       \/ race' = [race EXCEPT !.todo = @ \ {k}]
       \/ race' = [race EXCEPT !.todo = {}, !.close = "done"]
  /\ UNCHANGED <<netVars, wire, count, main, disp, cls>>

\* Close: the range is over: close(t.quit), t.listener.Close()
RaceCloseEnd ==
  /\ ~race.crashed
  /\ race.close = "range"
  /\ race.todo = {}
  /\ race' = [race EXCEPT !.close = "done", !.quit = TRUE, !.lnOpen = FALSE]
  /\ UNCHANGED <<netVars, wire, count, main, disp, cls>>

RaceInit == NetIdle /\ race = RaceStart /\ wire = WireStart /\ count = CountIdle /\ main = MainIdle /\ disp = DispIdle /\ cls = ClsIdle

RaceNext ==
  \/ RaceAccept
  \/ RaceAcceptInserted
  \/ RaceAcceptError
  \/ \E name \in Addr : RaceOpen(name)
  \/ RaceOpenInserted
  \/ RaceCloseCall
  \/ RaceCloseVisit
  \/ RaceCloseEnd

RaceSpec == RaceInit /\ [][RaceNext]_vars

\* ------------------------------------------------------------ the byte stream
\* One end of a TcpConn sends, the other receives.  The bytes of the stream are
\* numbered from 1 in the order Send wrote them: wire.delivered of them have
\* reached the reading end, wire.consumed of them were taken by the Read calls
\* of Receive, and the buffer of the Receive in progress holds the bytes after
\* wire.bufStart up to wire.consumed.

\* what am.UnmarshalBinary does with the bytes of one encoded message: it
\* returns nil, it returns an error (unregistered type id, malformed payload),
\* or it panics
MsgKinds == {"decodes", "fails", "panics"}

\* the encoded lengths in use: short ones, one buffer, one buffer and a byte
MsgLengths == {1, 2, bufferSize, bufferSize + 1}

RECURSIVE SumLen(_, _)
\* the bytes of the first k messages of msgs
SumLen(msgs, k) == IF k = 0 THEN 0 ELSE SumLen(msgs, k - 1) + msgs[k].len

\* message m is the bytes after MsgStart up to MsgEnd
MsgStart(w, m) == SumLen(w.sent, m - 1)
MsgEnd(w, m) == SumLen(w.sent, m)
Written(w) == SumLen(w.sent, Len(w.sent))

\* the message whose bytes are exactly those after from up to to; 0 if none
WholeMessage(w, from, to) ==
  LET ms == {m \in 1..Len(w.sent) : MsgStart(w, m) = from /\ MsgEnd(w, m) = to}
  IN IF ms = {} THEN 0 ELSE CHOOSE m \in ms : TRUE

\* what one Receive returned: the message (0 for EmptyApplicationMessage and
\* for the zero ApplicationMessage), the error, whether recover() caught a
\* panic, and the bytes its buffer held
Result(am, err, fault, w) ==
  [am |-> am, err |-> err, fault |-> fault, from |-> w.bufStart, to |-> w.consumed]

\* lines 261-265: recover() in the deferred function swallows the panic; the
\* results of Receive are unnamed, so it returns their zero values
Recovered(w) == Result(0, "nil", TRUE, w)

\* lines 261-272: the outcomes of decoding the buffer.  Bytes that are not
\* exactly one encoded message make UnmarshalBinary fail or panic
DecodeBuffer(w) ==
  LET m == WholeMessage(w, w.bufStart, w.consumed) IN
  IF m = 0 THEN {Result(0, "ErrUnmarshal", FALSE, w), Recovered(w)}
  ELSE IF w.sent[m].kind = "decodes" THEN {Result(m, "nil", FALSE, w)}
  ELSE IF w.sent[m].kind = "fails" THEN {Result(0, "ErrUnmarshal", FALSE, w)}
  ELSE {Recovered(w)}

\* Receive returns r
WireReturn(w, r) ==
  [w EXCEPT !.results = Append(@, r), !.pc = "idle", !.ctx = "none"]

\* c.Conn.Read(b) has something to return: bytes, or an error
ReadReady(w) ==
  \/ w.rcvClosed
  \/ w.delivered > w.consumed
  \/ w.sndClosed /\ w.delivered = Written(w)

\* if n < bufferSize { break }
ShortRead(n, w) == n < bufferSize

\* TcpConn.Send: the encoded message is written to the stream
WireSend ==
  /\ Len(wire.sent) < MaxSends
  /\ ~wire.sndClosed
  /\ \E k \in MsgKinds, l \in MsgLengths :
       wire' = [wire EXCEPT !.sent = Append(@, [kind |-> k, len |-> l])]
  /\ UNCHANGED <<netVars, race, count, main, disp, cls>>

\* where the network may stop short: after the first byte of a message, after
\* its first bufferSize bytes, at its end
Cuts(w) ==
  UNION {{MsgStart(w, m) + 1, MsgStart(w, m) + bufferSize, MsgEnd(w, m)} :
           m \in 1..Len(w.sent)}

\* the network brings the written bytes to the reading end, up to a cut
WireDeliver ==
  /\ \E d \in Cuts(wire) :
       /\ d > wire.delivered
       /\ d <= Written(wire)
       /\ wire' = [wire EXCEPT !.delivered = d]
  /\ UNCHANGED <<netVars, race, count, main, disp, cls>>

\* the caller enters Receive(ctx)
WireReceiveCall ==
  /\ wire.pc = "idle"
  /\ Len(wire.results) <= MaxSends
  /\ wire' = [wire EXCEPT !.pc = "read", !.ctx = "live", !.bufStart = wire.consumed]
  /\ UNCHANGED <<netVars, race, count, main, disp, cls>>

\* lines 248-273: one c.Conn.Read(b) of the loop and, when the loop ends, the
\* decoding and the return
WireRead ==
  /\ wire.pc = "read"
  /\ ReadReady(wire)
  /\ IF wire.rcvClosed
       THEN wire' = WireReturn(wire, Result(0, handleError(ErrNetClosing), FALSE, wire))
     ELSE IF wire.delivered = wire.consumed
       THEN wire' = WireReturn(wire, Result(0, handleError(IoEOF), FALSE, wire))
     ELSE LET avail == wire.delivered - wire.consumed
              n == IF avail < bufferSize THEN avail ELSE bufferSize
              w == [wire EXCEPT !.consumed = @ + n]
          IN IF ShortRead(n, wire)
               THEN \E r \in DecodeBuffer(w) : wire' = WireReturn(w, r)
               ELSE wire' = w
  /\ UNCHANGED <<netVars, race, count, main, disp, cls>>

\* the caller of Receive cancels ctx
WireCancel ==
  /\ wire.pc = "read"
  /\ wire.ctx = "live"
  /\ wire' = [wire EXCEPT !.ctx = "canceled"]
  /\ UNCHANGED <<netVars, race, count, main, disp, cls>>

\* the sending end closes the connection
WireSenderClose ==
  /\ ~wire.sndClosed
  /\ wire' = [wire EXCEPT !.sndClosed = TRUE]
  /\ UNCHANGED <<netVars, race, count, main, disp, cls>>

\* another goroutine closes the reading end
WireReceiverClose ==
  /\ ~wire.rcvClosed
  /\ wire' = [wire EXCEPT !.rcvClosed = TRUE]
  /\ UNCHANGED <<netVars, race, count, main, disp, cls>>

WireInit == NetIdle /\ race = RaceStart /\ wire = WireStart /\ count = CountIdle /\ main = MainIdle /\ disp = DispIdle /\ cls = ClsIdle

WireNext ==
  \/ WireSend
  \/ WireDeliver
  \/ WireReceiveCall
  \/ WireRead
  \/ WireCancel
  \/ WireSenderClose
  \/ WireReceiverClose

WireSpec == WireInit /\ [][WireNext]_vars

\* ------------------------------------------------------------ counting
\* The root of simul/cothority: the loop of lines 112-132 creates a Count
\* instance on rootSC.Tree, hands it the timeout, starts it and reads
\* proto.Count.  manage.ProtocolCount: every node of the tree answers its
\* parent with the size of its subtree: itself and what its children answered;
\* a parent stops waiting for a child when its timeout of the round runs out.
\* count.responsive are the nodes that are up and answer count requests, within
\* the initial timeout; the others are still being brought up.

RECURSIVE SumVal(_, _)
\* the sum of the answers of the nodes of S
SumVal(node, S) ==
  IF S = {} THEN 0
  ELSE LET n == CHOOSE x \in S : TRUE IN node[n].val + SumVal(node, S \ {n})

\* a node that leaves itself out of the size of its subtree
SubtreeCountWithoutSelf(node, n) ==
  SumVal(node, {ch \in Children[n] : node[ch].st = "replied"})

\* what node n counts: itself and the answers it got from its children
SubtreeCount(node, n) ==
  1 + SumVal(node, {ch \in Children[n] : node[ch].st = "replied"})

\* n waits for no child any more
ChildrenDone(node, n) == \A ch \in Children[n] : node[ch].st \in {"replied", "timedOut"}

\* lines 113-119: CreateProtocolSDA("Count", rootSC.Tree) fails and log.Fatal
\* ends the process, or the instance gets the timeout and is started
CountCreate ==
  /\ count.pc = "loop"
  /\ count.wait
  /\ count.rounds < MaxRounds
  /\ \/ count' = [count EXCEPT !.pc = "fatal"]
     \/ count' = [count EXCEPT !.pc = "started", !.rounds = @ + 1,
                               !.given = count.timeout, !.prevGiven = count.given,
                               !.out = {}, !.prevOut = count.out, !.total = 0,
                               !.allUp = (count.responsive = Nodes),
                               !.node = [n \in Nodes |-> [st |-> "waiting", val |-> 0]]]
  /\ UNCHANGED <<netVars, race, wire, main, disp, cls>>

\* a node that was being brought up is up and answers from now on
NodeComesUp(n) ==
  /\ count.pc \in {"loop", "started", "received"}
  /\ n \notin count.responsive
  /\ count' = [count EXCEPT !.responsive = @ \cup {n}]
  /\ UNCHANGED <<netVars, race, wire, main, disp, cls>>

\* a node that is up and whose children are done answers its parent
NodeReply(n) ==
  /\ count.pc = "started"
  /\ n # Root
  /\ n \in count.responsive
  /\ count.node[n].st = "waiting"
  /\ ChildrenDone(count.node, n)
  /\ count' = [count EXCEPT !.node[n] = [st |-> "replied",
                                         val |-> SubtreeCount(count.node, n)]]
  /\ UNCHANGED <<netVars, race, wire, main, disp, cls>>

\* the timeout of the round runs out at the parent of n before n answered: n
\* is not up, or the timeout handed to the round leaves no time to wait
NodeTimeout(n) ==
  /\ count.pc = "started"
  /\ n # Root
  /\ n \notin count.responsive \/ ~IntPositive(count.given)
  /\ count.node[n].st = "waiting"
  /\ count' = [count EXCEPT !.node[n].st = "timedOut", !.out = @ \cup {n}]
  /\ UNCHANGED <<netVars, race, wire, main, disp, cls>>

\* the root is done with its children and sends its count on proto.Count;
\* line 122 reads it
RootCount ==
  /\ count.pc = "started"
  /\ ChildrenDone(count.node, Root)
  /\ count' = [count EXCEPT !.pc = "received",
                            !.total = SubtreeCount(count.node, Root)]
  /\ UNCHANGED <<netVars, race, wire, main, disp, cls>>

\* if count == rootSC.Tree.Size()
CountAccepted(total) == total = TreeSize

\* lines 123-131: compare the count, then timeout *= 2
CountCompare ==
  /\ count.pc = "received"
  /\ count' = [count EXCEPT !.wait = ~CountAccepted(count.total),
                            !.timeout = IntDouble(@),
                            !.pc = "loop"]
  /\ UNCHANGED <<netVars, race, wire, main, disp, cls>>

\* lines 133-136: the loop is over, rootSim.Run(rootSC)
RunSimulation ==
  /\ count.pc = "loop"
  /\ ~count.wait
  /\ count' = [count EXCEPT !.pc = "run"]
  /\ UNCHANGED <<netVars, race, wire, main, disp, cls>>

CountInit ==
  /\ NetIdle /\ race = RaceStart /\ wire = WireStart /\ main = MainIdle /\ disp = DispIdle /\ cls = ClsIdle
  /\ count \in {CountStart(bits) : bits \in IntWidths}

CountNext ==
  \/ CountCreate
  \/ \E n \in Nodes : NodeComesUp(n)
  \/ \E n \in Nodes : NodeReply(n)
  \/ \E n \in Nodes : NodeTimeout(n)
  \/ RootCount
  \/ CountCompare
  \/ RunSimulation

CountSpec == CountInit /\ [][CountNext]_vars

\* ------------------------------------------------------------ main
\* One process of simul/cothority: main launches the hosts of scs, and the
\* process that has the root's host counts the children, runs the simulation
\* and starts CloseAll; every process then waits for its hosts to be closed.
\* manage.ProtocolCloseAll: the close signal goes from the root to the leaves,
\* a node closes its host once every child has acknowledged, and acknowledges
\* to its parent.

\* the process is gone: return at line 54, log.Fatal, or a runtime panic
MainOver(m) == m.pc \in {"returned", "fatal", "panic", "cleanup"}

\* host.ServerIdentity.ID == sc.Tree.Root.ServerIdentity.ID
IsRootHost(m, k) == m.scs[k] = m.tree[Root]

Parent(n) == CHOOSE p \in Nodes : n \in Children[p]

\* lines 49-55
LoadSimulationConfig ==
  /\ main.pc = "load"
  /\ \/ main' = [main EXCEPT !.pc = "returned"]
     \/ main' = [main EXCEPT !.pc = "launch"]
  /\ UNCHANGED <<netVars, race, wire, count, disp, cls>>

\* lines 67-84: wg.Add(1), the goroutine of the host is running
LaunchHost ==
  /\ main.pc = "launch"
  /\ main.i <= Len(main.scs)
  /\ main' = [main EXCEPT !.wg = @ + 1, !.host[main.i] = "running", !.pc = "node"]
  /\ UNCHANGED <<netVars, race, wire, count, disp, cls>>

\* lines 86-99: NewSimulation and sim.Node, log.Fatal on an error of either;
\* the host of the tree's root makes this process the one that starts the protocol
SimulationNode ==
  /\ main.pc = "node"
  /\ \/ main' = [main EXCEPT !.pc = "fatal"]
     \/ main' = [main EXCEPT !.rootSim = @ \/ IsRootHost(main, main.i),
                             !.i = @ + 1, !.pc = "launch"]
  /\ UNCHANGED <<netVars, race, wire, count, disp, cls>>

\* line 101: if rootSim != nil
RootCheck ==
  /\ main.pc = "launch"
  /\ main.i > Len(main.scs)
  /\ main' = [main EXCEPT !.pc = IF main.rootSim THEN "count" ELSE "wait"]
  /\ UNCHANGED <<netVars, race, wire, count, disp, cls>>

\* lines 106-133: the counting loop, which CountSpec has step by step
CountChildren ==
  /\ main.pc = "count"
  /\ \/ main' = [main EXCEPT !.pc = "fatal", !.rootStarted = TRUE]
     \/ main' = [main EXCEPT !.pc = "run", !.rootStarted = TRUE]
  /\ UNCHANGED <<netVars, race, wire, count, disp, cls>>

\* lines 136-140: rootSim.Run(rootSC)
SimulationRun ==
  /\ main.pc = "run"
  /\ \/ main' = [main EXCEPT !.pc = "fatal"]
     \/ main' = [main EXCEPT !.pc = "uses"]
  /\ UNCHANGED <<netVars, race, wire, count, disp, cls>>

\* lines 144-147: log.Error when the tree does not use the list, and go on
UsesListCheck ==
  /\ main.pc = "uses"
  /\ main' = [main EXCEPT !.logged = ~UsesList(main.tree), !.pc = "closeTree"]
  /\ UNCHANGED <<netVars, race, wire, count, disp, cls>>

\* lines 148-157
ChooseCloseTree ==
  /\ main.pc = "closeTree"
  /\ main' = [main EXCEPT
                !.closeTree = IF main.singleHost THEN GenerateBinaryTree ELSE main.tree,
                !.registered = main.singleHost,
                !.pc = "create"]
  /\ UNCHANGED <<netVars, race, wire, count, disp, cls>>

\* line 158: pi, err := CreateProtocolSDA("CloseAll", closeTree)
CreateCloseAll ==
  /\ main.pc = "create"
  /\ \E r \in {<<"instance", "nil">>, <<"nil", "err">>, <<"instance", "err">>} :
       main' = [main EXCEPT !.pi = r[1], !.err = r[2], !.pc = "start"]
  /\ UNCHANGED <<netVars, race, wire, count, disp, cls>>

\* line 159: pi.Start(), before err is looked at; a nil pi panics
StartCloseAll ==
  /\ main.pc = "start"
  /\ IF main.pi = "nil"
     THEN main' = [main EXCEPT !.pc = "panic"]
     ELSE main' = [main EXCEPT !.started = TRUE, !.startedOn = main.closeTree,
                               !.node[Root] = "signalled", !.pc = "errcheck"]
  /\ UNCHANGED <<netVars, race, wire, count, disp, cls>>

\* lines 160-162
CheckCloseAllErr ==
  /\ main.pc = "errcheck"
  /\ main' = [main EXCEPT !.pc = IF main.err # "nil" THEN "fatal" ELSE "wait"]
  /\ UNCHANGED <<netVars, race, wire, count, disp, cls>>

\* lines 77-81: h.Start() returns when the host is closed, then wg.Done()
HostStartReturns(k) ==
  /\ ~MainOver(main)
  /\ k \in 1..Len(main.scs)
  /\ main.host[k] = "running"
  /\ main.scs[k] \in main.hostClosed
  /\ main' = [main EXCEPT !.host[k] = "returned", !.wg = @ - 1]
  /\ UNCHANGED <<netVars, race, wire, count, disp, cls>>

\* lines 165-168: wg.Wait(), then monitor.EndAndCleanup()
WaitGroupWait ==
  /\ main.pc = "wait"
  /\ main.wg = 0
  /\ main' = [main EXCEPT !.pc = "cleanup"]
  /\ UNCHANGED <<netVars, race, wire, count, disp, cls>>

\* the root's host is in another process, which starts CloseAll
RemoteRootStarts ==
  /\ ~MainOver(main)
  /\ ~main.started
  /\ \A k \in 1..Len(main.scs) : ~IsRootHost(main, k)
  /\ \E t \in {main.tree, GenerateBinaryTree} :
       main' = [main EXCEPT !.started = TRUE, !.remote = TRUE, !.startedOn = t,
                            !.node[Root] = "signalled"]
  /\ UNCHANGED <<netVars, race, wire, count, disp, cls>>

\* the host of tree node n is up
HostOpen(m, n) == m.startedOn[n] \notin m.hostClosed

\* the close signal reaches n from its parent
CloseSignal(n) ==
  /\ main.started
  /\ n # Root
  /\ main.node[n] = "idle"
  /\ main.node[Parent(n)] = "signalled"
  /\ HostOpen(main, Parent(n)) /\ HostOpen(main, n)
  /\ main' = [main EXCEPT !.node[n] = "signalled"]
  /\ UNCHANGED <<netVars, race, wire, count, disp, cls>>

\* a node that closes as soon as it has the signal
NoAckNeeded(m, n) == TRUE

\* every child of n has acknowledged closing
AllChildrenAcked(m, n) == \A ch \in Children[n] : ch \in m.acks

\* n acknowledges to its parent and closes its host
NodeClose(n) ==
  /\ main.started
  /\ main.node[n] = "signalled"
  /\ AllChildrenAcked(main, n)
  /\ main' = [main EXCEPT !.node[n] = "closed",
                          !.hostClosed = @ \cup {main.startedOn[n]},
                          !.closeOrder = Append(@, n)]
  /\ UNCHANGED <<netVars, race, wire, count, disp, cls>>

\* the acknowledgement of ch reaches its parent, whose host is up
AckArrives(ch) ==
  /\ main.started
  /\ ch # Root
  /\ main.node[ch] = "closed"
  /\ ch \notin main.acks
  /\ HostOpen(main, Parent(ch))
  /\ main' = [main EXCEPT !.acks = @ \cup {ch}]
  /\ UNCHANGED <<netVars, race, wire, count, disp, cls>>

MainInit ==
  /\ NetIdle /\ race = RaceStart /\ wire = WireStart /\ count = CountIdle
  /\ disp = DispIdle /\ cls = ClsIdle
  /\ main \in {MainStart(scs, tree, sh) :
                 scs \in LocalHosts, tree \in WorkingTrees, sh \in BOOLEAN}

MainNext ==
  \/ LoadSimulationConfig
  \/ LaunchHost
  \/ SimulationNode
  \/ RootCheck
  \/ CountChildren
  \/ SimulationRun
  \/ UsesListCheck
  \/ ChooseCloseTree
  \/ CreateCloseAll
  \/ StartCloseAll
  \/ CheckCloseAllErr
  \/ \E k \in 1..Len(main.scs) : HostStartReturns(k)
  \/ WaitGroupWait
  \/ RemoteRootStarts
  \/ \E n \in Nodes : CloseSignal(n)
  \/ \E n \in Nodes : NodeClose(n)
  \/ \E n \in Nodes : AckArrives(n)

MainSpec == MainInit /\ [][MainNext]_vars

\* ------------------------------------------------------------ dispatch
\* The overlay routes an inbound envelope to the protocol instance of its
\* dispatch key; an instance is created once, handles what it is handed, and
\* finishes.  The network may deliver an envelope late and a second time.

\* an overlay that hands an envelope to any instance it ever had under the key
MatchesKnown(d, k) == d.inst[k].st # "none"

\* the key of the envelope is the key of a live instance
Matches(d, k) == d.inst[k].st = "live"

\* the overlay creates the instance of key k
DispCreate(k) ==
  /\ disp.inst[k].st = "none"
  /\ disp' = [disp EXCEPT !.inst[k].st = "live"]
  /\ UNCHANGED <<netVars, race, wire, count, main, cls>>

\* a peer sends an envelope with key k
DispSend(k) ==
  /\ disp.sent < MaxSends
  /\ disp' = [disp EXCEPT !.sent = @ + 1,
                          !.flying = @ \cup {[key |-> k, id |-> disp.sent + 1]}]
  /\ UNCHANGED <<netVars, race, wire, count, main, cls>>

\* envelope e arrives; with again a second copy of it stays on its way
DispDeliver(e, again) ==
  /\ e \in disp.flying
  /\ again => e \notin disp.delivered \cup disp.dropped
  /\ disp' = [disp EXCEPT
                !.flying = IF again THEN @ ELSE @ \ {e},
                !.inst[e.key].inbox = IF Matches(disp, e.key) THEN Append(@, e.id) ELSE @,
                !.delivered = IF Matches(disp, e.key) THEN @ \cup {e} ELSE @,
                !.dropped = IF Matches(disp, e.key) THEN @ ELSE @ \cup {e}]
  /\ UNCHANGED <<netVars, race, wire, count, main, cls>>

\* the instance's receive() yields the next message
InstanceReceive(k) ==
  /\ disp.inst[k].st = "live"
  /\ disp.inst[k].inbox # << >>
  /\ disp' = [disp EXCEPT !.inst[k].handled = @ \cup {Head(disp.inst[k].inbox)},
                          !.inst[k].inbox = Tail(@)]
  /\ UNCHANGED <<netVars, race, wire, count, main, cls>>

\* the instance is done and destroyed
InstanceFinish(k) ==
  /\ disp.inst[k].st = "live"
  /\ disp' = [disp EXCEPT !.inst[k] = [st |-> "finished", inbox |-> << >>,
                                       handled |-> disp.inst[k].handled,
                                       final |-> disp.inst[k].handled]]
  /\ UNCHANGED <<netVars, race, wire, count, main, cls>>

DispInit ==
  /\ NetIdle /\ race = RaceStart /\ wire = WireStart /\ count = CountIdle
  /\ main = MainIdle /\ disp = DispIdle /\ cls = ClsIdle

DispNext ==
  \/ \E k \in Keys : DispCreate(k)
  \/ \E k \in Keys : DispSend(k)
  \/ \E e \in disp.flying, again \in BOOLEAN : DispDeliver(e, again)
  \/ \E k \in Keys : InstanceReceive(k)
  \/ \E k \in Keys : InstanceFinish(k)

DispSpec == DispInit /\ [][DispNext]_vars

\* ------------------------------------------------------------ handleError
\* the caller hands its error to handleError and gets the classified error
HandleError ==
  /\ cls.out = "none"
  /\ cls' = [cls EXCEPT !.out = handleError(cls.err)]
  /\ UNCHANGED <<netVars, race, wire, count, main, disp>>

\* the caller returns and the next error comes up
NextError ==
  /\ cls.out # "none"
  /\ \E c \in Callers, e \in TransportErrors : cls' = ClsStart(c, e)
  /\ UNCHANGED <<netVars, race, wire, count, main, disp>>

ClsInit ==
  /\ NetIdle /\ race = RaceStart /\ wire = WireStart /\ count = CountIdle
  /\ main = MainIdle /\ disp = DispIdle
  /\ cls \in {ClsStart(c, e) : c \in Callers, e \in TransportErrors}

ClsNext == HandleError \/ NextError

ClsSpec == ClsInit /\ [][ClsNext]_vars

\* ------------------------------------------------------------ properties
\* SecureTcpHost.Open is returning
SecureOpenReturning == open.pc = "ret" /\ openRet.valid /\ openRet.secure

NegotiationErrors ==
  {"ErrNegoSend", "ErrNegoReceive", "ErrNegoType", "ErrNegoWrongIdentity"}

\* C1: when SecureTcpHost.Open(id) returns after the peer declared an identity,
\* it returns an error if the declared id differs from id.Id and no error if the
\* declared id equals id.Id.
C1_OpenChecksDeclaredId ==
  (SecureOpenReturning /\ open.declared # NoIdentity) =>
    (openRet.err = "nil" <=> open.declared.Id = open.id.Id)

\* Open returns an error for a peer that answered under another identity
C1_Witness ==
  /\ SecureOpenReturning
  /\ open.declared = HostIdentity(Listener)
  /\ open.id.Id = "IdC"
  /\ openRet.err = "ErrNegoWrongIdentity"

\* the client end of c is between the successful net.Dial and the return of
\* negotiateOpen; the listen side of c is inside the receiver's negotiateListen
ClientNegotiating(c) ==
  /\ open.secure
  /\ \/ open.pc \in {"dialEnd", "dialRet"} /\ dial.conn = c
     \/ open.pc \in {"negoSend", "negoRecv"} /\ open.conn = c

ServerNegotiating(c) == lis.conn = c /\ lis.pc \in {"negoSend", "negoRecv"}

\* both ends of c run the handshake: A dialed it through SecureTcpHost.Open and
\* the accept loop of B entered the receiver with it
HandshakeStarted(c) == c \in ConnIds /\ conns[c].secure /\ conns[c].accepted

HandshakeOver(c) == c \in ConnIds /\ ~ClientNegotiating(c) /\ ~ServerNegotiating(c)

C3_HandlerOnlyAfterNegotiation ==
  \A c \in ConnIds :
    /\ conns[c].handled =>
         /\ conns[c].sNego = "ok"
         /\ conns[c].declared["s"] # NoIdentity
    /\ conns[c].sNego \in {"sendFailed", "receiveFailed", "wrongType"} =>
         /\ ~conns[c].handled
         /\ conns[c].closed["s"]
         /\ ConnT(c, "s") \in closeCalled

\* a connection that sent an application message instead of an identity was dropped
C3_Witness ==
  \E c \in ConnIds :
    /\ conns[c].sNego = "wrongType"
    /\ conns[c].closed["s"]
    /\ ~conns[c].handled

\* C4: when the negotiation fails, SecureTcpHost.Open returns no connection and
\* the underlying connection is closed.
C4_OpenFailsClosed ==
  (SecureOpenReturning /\ openRet.err \in NegotiationErrors) =>
    /\ openRet.conn = 0
    /\ conns[open.conn].closed["c"]

\* C5: every message Receive returns on a negotiated secure connection carries
\* the identity that end recorded during its negotiation.
C5_ReceiveCarriesNegotiatedIdentity ==
  \A c \in ConnIds : \A side \in {"c", "s"} :
    (Holds(c, side) /\ conns[c].declared[side] # NoIdentity) =>
      \A r \in ConnReceiveOutcomes(c, side) :
        r.am.Identity = conns[c].declared[side]

\* a negotiated end whose Receive returns a message sent after the handshake
C5_Witness ==
  \E c \in ConnIds : \E side \in {"c", "s"} :
    /\ Holds(c, side)
    /\ conns[c].declared[side] # NoIdentity
    /\ \E r \in ConnReceiveOutcomes(c, side) :
         r.err = "nil" /\ r.am.MsgType = "Other" /\ r.am.Identity # NoIdentity

\* openTcpConn has returned to its caller
DialReturned == open.pc = "dialRet"

\* C6: a dial makes at most maxRetry attempts; it returns the connection and no
\* error at the first attempt that succeeds, with no attempt after it, and it
\* fails exactly when all maxRetry attempts failed.
C6_DialAtMostMaxRetry ==
  /\ dial.dials <= maxRetry
  /\ dial.firstOk # 0 => dial.dials = dial.firstOk
  /\ DialReturned =>
       /\ (dial.retErr = "nil") <=> (dial.firstOk # 0)
       /\ (dial.retErr = "nil") <=> (dial.retConn # 0)
       /\ (dial.retErr # "nil") <=> (dial.firstOk = 0 /\ dial.dials = maxRetry)

\* a dial that failed after maxRetry attempts
C6_Witness ==
  DialReturned /\ dial.retErr # "nil" /\ dial.dials = maxRetry /\ dial.firstOk = 0

\* the attempts of the current dial that failed
FailedAttempts == dial.dials - (IF dial.firstOk # 0 THEN 1 ELSE 0)

\* C7: the dialer waits exactly one waitRetry after each failed attempt and does
\* not wait after a successful one.
C7_OneIntervalPerFailure ==
  dial.slept = FailedAttempts * waitRetry

\* C8: SecureTcpHost.Open tries the addresses of the identity in list order and
\* connects through the first that accepts; the failure of an earlier address
\* is not the result, and Open reports that it could not connect only when
\* every address of the identity failed.
C8_AddressFailover ==
  SecureOpenReturning =>
    /\ open.tried = SubSeq(open.id.Addresses, 1, Len(open.tried))
    /\ openRet.err = "ErrNoAddressConnected" <=> openRet.conn = 0
    /\ openRet.conn = 0 => open.failed = open.id.Addresses
    /\ openRet.conn # 0 =>
         /\ open.tried # << >>
         /\ conns[openRet.conn].addr = open.tried[Len(open.tried)]
         /\ open.failed = SubSeq(open.tried, 1, Len(open.tried) - 1)

\* x refused every attempt and Open connected through y
C8_Witness ==
  /\ SecureOpenReturning
  /\ open.id.Addresses = <<"x", "y">>
  /\ open.failed = <<"x">>
  /\ openRet.conn # 0
  /\ conns[openRet.conn].addr = "y"
  /\ openRet.err = "nil"

\* C9: a Close of a host or of a connection that was closed before returns no
\* error and changes no state, whatever the first Close returned.
C9_CloseIdempotent ==
  /\ \A h \in Hosts :
       HostT(h) \in closeCalled =>
         \A r \in TcpHostCloseOutcomes(h) :
           /\ r.err = "nil"
           /\ r.closed = closed /\ r.conns = conns
           /\ r.quit = quit /\ r.lnOpen = lnOpen
  /\ \A c \in ConnIds : \A side \in {"c", "s"} :
       ConnT(c, side) \in closeCalled =>
         \A r \in TcpConnClose(conns, c, side) : r.err = "nil" /\ r.cs = conns

\* B was closed once with an error, a connection end was closed, and both can
\* be closed again
C9_Witness ==
  /\ HostT(Listener) \in closeCalled
  /\ ~quit[Listener]
  /\ \E c \in ConnIds : ConnT(c, "c") \in closeCalled
  /\ \E r \in TcpHostCloseOutcomes(Listener) : r.err = "nil"

\* C10: when Close sets the closed flag of a host, every connection tracked in
\* its map has been closed, quit has been signalled and the listening socket
\* has been closed, also when closing a tracked connection returns an error.
C10_CloseClosesEverything ==
  [][\A h \in Hosts :
       (~closed[h] /\ closed'[h]) =>
         /\ \A p \in peers[h] : conns'[p.conn].closed[Side(h)]
         /\ quit'[h]
         /\ listener[h] \notin lnOpen']_vars

\* C11: once Host.Close has signalled quit the accept loop is never left inside
\* Accept on a listening socket that is still open, so it returns without a
\* dummy connection, whether Close ran before the listener was bound or while
\* Accept was blocked.
C11_CloseUnblocksAccept ==
  (quit[Listener] /\ lis.pc = "accept") => listener[Listener] \notin lnOpen

\* the accept loop waits inside the receiver: the Receive of negotiateListen on
\* the connection it accepted last has nothing to read
BlockedInReceiver ==
  lis.pc = "negoRecv" /\ NegotiateReceive(conns, lis.conn, "s") = {}

\* C12: while a connection waits in the backlog of the listening socket, the
\* accept loop is never held by an accepted peer that stays silent.
C12_SilentPeerNeverBlocksAccept ==
  Pending(Listener) # {} => ~BlockedInReceiver

\* C13: no two of the accept loop's insert, Open's insert and Close's range
\* over t.peers are in progress at the same time on one host.
C13_MapAccessExclusive ==
  \A a \in RaceThreads : \A b \in RaceThreads \ {a} :
    ~(Accessing(a) /\ Accessing(b))

\* every message sent so far decodes, and neither end has closed
AllDecodable(w) ==
  /\ \A m \in 1..Len(w.sent) : w.sent[m].kind = "decodes"
  /\ ~w.sndClosed /\ ~w.rcvClosed

\* C14: whatever way the network splits or coalesces the bytes of the Sends
\* on a connection, the i-th Receive of the peer returns the i-th message sent,
\* without error.
C14_OrderAndBoundaries ==
  AllDecodable(wire) =>
    \A i \in 1..Len(wire.results) :
      wire.results[i].am = i /\ wire.results[i].err = "nil"

\* C15: for every encoded length, a multiple of bufferSize included, a Receive
\* that has read all the bytes of the single message sent is not left waiting
\* in Read for further traffic: it returns the message.
C15_WholeMessageReturned ==
  (Len(wire.sent) = 1 /\ wire.bufStart = 0 /\ wire.consumed = Written(wire)) =>
    ~(wire.pc = "read" /\ ~ReadReady(wire))

\* C16: a Receive in which decoding panicked returns a non-nil error.
C16_FaultReturnsError ==
  \A i \in 1..Len(wire.results) :
    wire.results[i].fault => wire.results[i].err # "nil"

\* the i-th Receive read exactly one message and UnmarshalBinary returned an
\* error for it: the message; 0 otherwise
FailedMessage(w, i) ==
  IF w.results[i].err = "ErrUnmarshal" /\ ~w.results[i].fault
    THEN WholeMessage(w, w.results[i].from, w.results[i].to)
    ELSE 0

\* C17: a Receive that fails to unmarshal returns an error and an empty
\* message and leaves the connection and the hosts as they were; when it had
\* read one malformed message and the next message sent is well-formed, the
\* next Receive returns that message.
C17_UnmarshalFailureIsolated ==
  [][Len(wire'.results) > Len(wire.results) =>
       LET i == Len(wire'.results)
           r == wire'.results[i]
       IN /\ r.err = "ErrUnmarshal" =>
               /\ r.am = 0
               /\ wire'.rcvClosed = wire.rcvClosed
               /\ wire'.sndClosed = wire.sndClosed
               /\ netVars' = netVars
          /\ (/\ i > 1
              /\ FailedMessage(wire, i - 1) # 0
              /\ FailedMessage(wire, i - 1) < Len(wire.sent)
              /\ wire.sent[FailedMessage(wire, i - 1) + 1].kind = "decodes"
              /\ ~wire.sndClosed /\ ~wire.rcvClosed) =>
               r.am = FailedMessage(wire, i - 1) + 1 /\ r.err = "nil"]_vars

\* C18: a Receive whose context has been cancelled is not left waiting in
\* Read: it can return.
C18_CanceledReceiveReturns ==
  (wire.pc = "read" /\ wire.ctx = "canceled") => ReadReady(wire)

\* C19: the root starts the simulation only after a round returned the size of
\* the tree; after a round that returned another total it goes round again,
\* and the timeout it gives every further Count instance is twice the one
\* before, however many rounds there are.
C19_CountUntilTreeSize ==
  /\ count.pc = "run" => count.total = TreeSize
  /\ (count.pc = "loop" /\ count.rounds > 0) =>
       (count.wait <=> count.total # TreeSize)
  /\ (count.pc \in {"started", "received"} /\ count.rounds > 1) =>
       ExactlyTwice(count.prevGiven, count.given)

\* C20: a round in which every node answered in time returns the size of the
\* tree, the first round and every later one; a round in which one leaf stayed
\* silent and every other node answered returns one less.
C20_CountConverges ==
  count.pc = "received" =>
    /\ count.out = {} => count.total = TreeSize
    /\ \A l \in Leaves :
         count.out = {l} => count.total = TreeSize - 1 /\ count.total < TreeSize

\* the first round missed the silent leaf c, the second round, in which c
\* answered, returned the size of the tree
C20_Witness ==
  /\ count.pc = "received"
  /\ count.rounds = 2
  /\ count.prevOut = {"c"}
  /\ count.out = {}
  /\ count.total = TreeSize

ClosedAt(m, n) ==
  IF \E i \in 1..Len(m.closeOrder) : m.closeOrder[i] = n
  THEN CHOOSE i \in 1..Len(m.closeOrder) : m.closeOrder[i] = n
  ELSE 0

\* C22: in CloseAll a node that has closed did so after every one of its
\* children had closed, on every tree and in every interleaving of the
\* signals and acknowledgements: each child's close is strictly before its
\* parent's.
C22_ChildrenCloseFirst ==
  \A n \in Nodes : \A ch \in Children[n] :
    ClosedAt(main, n) > 0 =>
      (ClosedAt(main, ch) > 0 /\ ClosedAt(main, ch) < ClosedAt(main, n))

\* CloseAll ran through the whole tree and the root closed last
C22_Witness ==
  /\ Len(main.closeOrder) = TreeSize
  /\ main.closeOrder[TreeSize] = Root
  /\ main.node["b"] = "closed" /\ main.node["c"] = "closed"

\* C23: the tree CloseAll is created on has exactly one tree node for every
\* identity of the roster: it is the tree generated from the roster, registered
\* with the overlay, in the single-host configuration, and the working tree
\* otherwise.
C23_CloseTreeDeduplicated ==
  main.pc \in {"create", "start", "errcheck"} =>
    /\ UsesList(main.closeTree)
    /\ main.singleHost => (main.closeTree = GenerateBinaryTree /\ main.registered)
    /\ ~main.singleHost => main.closeTree = main.tree

\* C24: when the tree does not use every identity of the roster exactly once
\* and no tree is generated for the shutdown, the process does not start
\* CloseAll on that tree.
C24_AbortWithoutDedupTree ==
  (~UsesList(main.tree) /\ ~main.singleHost) => ~(main.started /\ ~main.remote)

\* C30: the process is at its final cleanup only when the Start of each of its
\* hosts has returned; it starts the root's protocols only if one of its hosts
\* is the root of the tree; and it starts CloseAll only if creating the
\* instance gave no error.
C30_DriverOrder ==
  /\ main.pc = "cleanup" =>
       \A k \in 1..Len(main.scs) : main.host[k] = "returned"
  /\ (main.rootStarted \/ (main.started /\ ~main.remote)) =>
       \E k \in 1..Len(main.scs) : IsRootHost(main, k)
  /\ (main.started /\ ~main.remote) => main.err = "nil"

\* C25: SecureTcpHost.Listen returns an error exactly when it could bind none
\* of the identity's addresses, and when its accept loop ends because the
\* host was closed it returns nil at once, without binding another address.
C25_ListenBindsOnce ==
  /\ [](lis.pc = "done" =>
          (lis.ret = "ErrNoAddressWorked" <=> listener[Listener] = "none"))
  /\ [][(/\ lis.pc = "accept"
         /\ listener[Listener] \notin lnOpen
         /\ quit[Listener]
         /\ lis' # lis)
        => (lis'.pc = "done" /\ lis'.ret = "nil")]_vars

\* C26: an envelope whose dispatch key has no live instance is dropped: an
\* instance that does not exist yet has been handed nothing, and a finished
\* instance has nothing pending and has handled exactly what it had handled
\* when it finished, also when late and second copies arrive.
C26_DispatchMissDropped ==
  \A k \in Keys :
    /\ disp.inst[k].st = "none" =>
         (disp.inst[k].inbox = << >> /\ disp.inst[k].handled = {})
    /\ disp.inst[k].st = "finished" =>
         (disp.inst[k].inbox = << >> /\ disp.inst[k].handled = disp.inst[k].final)
    /\ \A e \in disp.dropped \ disp.delivered : e.id \notin disp.inst[e.key].handled

\* an envelope was handed to its instance, the instance finished, and the
\* second copy of the envelope came late and was dropped
C26_Witness ==
  \E e \in disp.delivered \cap disp.dropped :
    /\ disp.inst[e.key].st = "finished"
    /\ e.id \in disp.inst[e.key].final

\* C27: handleError returns one of the six classified errors, by precedence:
\* 'use of closed' in the text, then 'canceled' in the text, then EOF, then
\* Unknown for an error that is no net.Error, then Temporary, then Timeout,
\* then Unknown; an error both temporary and timeout is Temporary.
C27_ErrorClassification ==
  cls.out # "none" =>
    LET e == cls.err
        text == e.useOfClosed \/ e.canceled \/ e.eof
    IN
    /\ cls.out \in {"ErrClosed", "ErrCanceled", "ErrEOF", "ErrTemp", "ErrTimeout",
                    "ErrUnknown"}
    /\ cls.out = "ErrClosed" <=> e.useOfClosed
    /\ cls.out = "ErrCanceled" <=> (~e.useOfClosed /\ e.canceled)
    /\ cls.out = "ErrEOF" <=> (~e.useOfClosed /\ ~e.canceled /\ e.eof)
    /\ cls.out = "ErrTemp" <=> (~text /\ e.isNet /\ e.temporary)
    /\ cls.out = "ErrTimeout" <=> (~text /\ e.isNet /\ ~e.temporary /\ e.timeout)
    /\ (~text /\ ~e.isNet) => cls.out = "ErrUnknown"

\* a net.Error that is both temporary and a timeout came back as Temporary
C27_Witness ==
  /\ cls.out = "ErrTemp"
  /\ cls.err.temporary /\ cls.err.timeout
  /\ ~cls.err.useOfClosed /\ ~cls.err.canceled /\ ~cls.err.eof

\* C28: the timeout handed to the first round is 1000, the one handed to each
\* later round is exactly twice the one of the round before, and the timeout
\* of every round is positive, however many rounds there are.
C28_TimeoutDoubles ==
  count.pc \in {"started", "received"} =>
    /\ IntPositive(count.given)
    /\ count.rounds = 1 => count.given = IntOf(1000, count.bits)
    /\ count.rounds > 1 =>
         (IntPositive(count.prevGiven) /\ count.given = IntDouble(count.prevGiven)
          /\ ExactlyTwice(count.prevGiven, count.given))

\* the connections host h tracks in t.peers
Tracked(h) == {p.conn : p \in peers[h]}

\* C29: a connection Open returns without error and that is not closed is in
\* the connection map of the opening host, and a connection the listener has
\* accepted and that is not closed is in the map of the listening host.
C29_OpenConnsTracked ==
  /\ (open.pc = "ret" /\ openRet.valid /\ openRet.err = "nil"
      /\ ~conns[openRet.conn].closed["c"]) => openRet.conn \in Tracked(Opener)
  /\ \A c \in ConnIds :
       (conns[c].accepted /\ ~conns[c].closed["s"]) => c \in Tracked(Listener)

====
